---- MODULE Spec2Model ----
(***************************************************************************)
(* image-provider: the request handler provide_images of src/src/lib.rs,   *)
(* its path resolver, query interpreter, decision gate, transform pipeline *)
(* and the TimedSizedCache it shares between requests.                     *)
(***************************************************************************)
EXTENDS Integers, Sequences, FiniteSets, TLC

\* ---------------------------------------------------------------- bounds
MaxCacheSize == 2
MaxTicks == 2
MaxSegs == 3

\* ------------------------------------------------------ program constants
CACHE_LIFESPAN == 24 * 60 * 60
DprMin == 1
DprMax == 3
\* u32 is modelled 16 bits wide: values are 0 .. U32Limit - 1
U32Limit == 65536

\* Option<T>: None is <<>>, Some(x) is <<x>>
None == <<>>
Some(x) == <<x>>
IsNone(o) == o = <<>>
IsSome(o) == o # <<>>
UnwrapOr(o, d) == IF o = <<>> THEN d ELSE o[1]

Last(s) == s[Len(s)]
Front(s) == SubSeq(s, 1, Len(s) - 1)

\* ------------------------------------------------------------ file system
\* root handed to get_images_router, and the regular files of the machine
\* (absolute canonical paths); the last two lie outside root.
Root == <<"srv", "img">>
Files ==
    { <<"srv", "img", "a.png">>,
      <<"srv", "img", "b.gif">>,
      <<"srv", "img", "c.ico">>,
      <<"srv", "img", "n.txt">>,
      <<"srv", "img", "p.jpg">>,
      <<"srv", "img", "d", "a.png">>,
      <<"srv", "s.png">>,
      <<"s.png">> }

\* std::path: the extension of a file name ("" when it has none)
ExtensionOf(name) ==
    CASE name \in {"a.png", "s.png", "zz.png"} -> "png"
      [] name = "b.gif" -> "gif"
      [] name = "c.ico" -> "ico"
      [] name = "n.txt" -> "txt"
      [] name = "p.jpg" -> "jpg"
      [] OTHER -> ""

\* mime_guess: the MIME types guessed for an extension
MimeGuess_from_ext(ext) ==
    CASE ext = "png" -> <<"image/png">>
      [] ext \in {"jpg", "jpeg"} -> <<"image/jpeg">>
      [] ext = "webp" -> <<"image/webp">>
      [] ext = "gif" -> <<"image/gif">>
      [] ext = "ico" -> <<"image/x-icon">>
      [] ext = "bmp" -> <<"image/bmp">>
      [] ext = "txt" -> <<"text/plain">>
      [] ext = "xyz" -> <<"chemical/x-xyz">>
      [] OTHER -> <<>>

MimeGuess_from_path(path) ==
    IF path = <<>> THEN <<>> ELSE MimeGuess_from_ext(ExtensionOf(Last(path)))

\* image::ImageFormat::from_mime_type
ImageFormat_from_mime_type(m) ==
    CASE m = "image/png" -> Some("Png")
      [] m = "image/jpeg" -> Some("Jpeg")
      [] m = "image/webp" -> Some("WebP")
      [] m = "image/gif" -> Some("Gif")
      [] m = "image/x-icon" -> Some("Ico")
      [] m = "image/bmp" -> Some("Bmp")
      [] OTHER -> None

\* the first guessed MIME type that names an image format
RECURSIVE find_image_mime(_)
find_image_mime(mimes) ==
    IF mimes = <<>> THEN None
    ELSE LET f == ImageFormat_from_mime_type(Head(mimes))
         IN IF IsSome(f) THEN f ELSE find_image_mime(Tail(mimes))

\* ---------------------------------------------------------- path resolver
\* A request path is [rooted |-> has a leading separator, segs |-> components].

\* path_clean::clean, one component at a time over the cleaned prefix `out`
CleanPush(rooted, out, comp) ==
    IF comp = "." THEN out
    ELSE IF comp = ".."
         THEN IF out = <<>>
              THEN IF rooted THEN out ELSE Append(out, comp)
              ELSE IF Last(out) = ".." THEN Append(out, comp) ELSE Front(out)
         ELSE Append(out, comp)

RECURSIVE CleanFold(_, _, _)
CleanFold(rooted, out, rest) ==
    IF rest = <<>> THEN out
    ELSE CleanFold(rooted, CleanPush(rooted, out, Head(rest)), Tail(rest))

clean(p) ==
    LET out == CleanFold(p.rooted, <<>>, p.segs)
    IN IF out = <<>> /\ ~p.rooted
       THEN [rooted |-> FALSE, segs |-> <<".">>]
       ELSE [rooted |-> p.rooted, segs |-> out]

\* path.strip_prefix("/").unwrap_or(&path)
strip_prefix(p) == [rooted |-> FALSE, segs |-> p.segs]

\* PathBuf::join: an absolute argument replaces the base
join(base, p) == IF p.rooted THEN p.segs ELSE base \o p.segs

\* what the operating system makes of an absolute path: "." stays, ".."
\* goes to the parent (the parent of "/" is "/")
RECURSIVE Canonical(_, _)
Canonical(done, rest) ==
    IF rest = <<>> THEN done
    ELSE LET c == Head(rest)
         IN Canonical(IF c = "." THEN done
                      ELSE IF c = ".." THEN (IF done = <<>> THEN done ELSE Front(done))
                      ELSE Append(done, c),
                      Tail(rest))

\* path.exists() && path.is_file()
is_file(path) == Canonical(<<>>, path) \in Files

IsPrefix(s, t) == Len(s) <= Len(t) /\ SubSeq(t, 1, Len(s)) = s
InsideRoot(path) == IsPrefix(Root, Canonical(<<>>, path))

Ok(v) == [ok |-> TRUE, val |-> v, status |-> 200, msg |-> ""]
Err(code, text) == [ok |-> FALSE, val |-> <<>>, status |-> code, msg |-> text]
\* a panic unwinds the handler's task: the connection closes without a response
Panic(text) == [ok |-> FALSE, val |-> <<>>, status |-> 0, msg |-> text]

get_path_and_mime(rel_path) ==
    LET path == join(Root, strip_prefix(clean(rel_path)))
        mime == find_image_mime(MimeGuess_from_path(path))
    IN IF ~is_file(path) THEN Err(404, "File not found")
       ELSE IF IsNone(mime) THEN Err(400, "Unsupported file type")
       ELSE Ok(<<path, mime[1]>>)

\* ------------------------------------------------------ query interpreter
\* A raw query parameter as it stands in the URL: absent, the text of a
\* decimal integer (val), or text that is no integer.
Absent == [present |-> FALSE, numeric |-> FALSE, val |-> 0]
Num(n) == [present |-> TRUE, numeric |-> TRUE, val |-> n]
Junk == [present |-> TRUE, numeric |-> FALSE, val |-> 0]

\* serde's Deserialize for a field of type Option<u32>
DeserializeOptU32(raw) ==
    IF ~raw.present THEN Ok(None)
    ELSE IF raw.numeric /\ raw.val >= 0 /\ raw.val < U32Limit THEN Ok(Some(raw.val))
    ELSE Err(400, "Failed to deserialize query string")

\* the Query<ImageQuery> extractor of provide_images
QueryExtract(raw) ==
    LET dpr == DeserializeOptU32(raw.dpr)
        w == DeserializeOptU32(raw.w)
        h == DeserializeOptU32(raw.h)
    IN IF ~dpr.ok THEN dpr
       ELSE IF ~w.ok THEN w
       ELSE IF ~h.ok THEN h
       ELSE Ok([output |-> raw.output, dpr |-> dpr.val, w |-> w.val, h |-> h.val])

\* mutant: an output that names no format counts as no output
ImageQuery_output_Fallback(q) ==
    Ok(IF IsNone(q.output) THEN None
       ELSE find_image_mime(MimeGuess_from_ext(q.output[1])))

\* ImageQuery::output
ImageQuery_output(q) ==
    IF IsNone(q.output) THEN Ok(None)
    ELSE LET f == find_image_mime(MimeGuess_from_ext(q.output[1]))
         IN IF IsNone(f)
            THEN Err(400, "Unsupported output format: " \o q.output[1])
            ELSE Ok(f)

ImageQuery_size(q) == <<q.w, q.h>>

Clamp(x, lo, hi) == IF x < lo THEN lo ELSE IF x > hi THEN hi ELSE x

\* mutant: caps the dpr at 3 but lets 0 through
ImageQuery_dpr_NoFloor(q) ==
    IF UnwrapOr(q.dpr, 1) > DprMax THEN DprMax ELSE UnwrapOr(q.dpr, 1)

ImageQuery_dpr(q) == Clamp(UnwrapOr(q.dpr, 1), DprMin, DprMax)

\* ---------------------------------------------------------- decision gate
\* mutant: compares the dpr field as given instead of the clamped dpr
eq_raw_FieldDpr(q, raw_mime, dst_mime) ==
    IsNone(q.w) /\ IsNone(q.h) /\ q.dpr = Some(1) /\ raw_mime = dst_mime

eq_raw(q, raw_mime, dst_mime) ==
    IsNone(q.w) /\ IsNone(q.h) /\ ImageQuery_dpr(q) = 1 /\ raw_mime = dst_mime

\* mutant: forgets the icon format
exclude_OnlyGif(raw_mime) == raw_mime = "Gif"

exclude(raw_mime) == raw_mime \in {"Ico", "Gif"}

\* ----------------------------------------------------- transform pipeline
\* width and height of the decoded source image
SrcSize(path) == IF Last(Canonical(<<>>, path)) = "p.jpg" THEN <<800, 600>> ELSE <<4, 2>>

\* (a / b).round() as u32 for non-negative a, positive b: half away from
\* zero, saturating at u32::MAX.  The quotient is taken exactly; the f32
\* arithmetic of the code agrees with it for the source sizes used here.
RoundDiv(a, b) ==
    LET r == (2 * a + b) \div (2 * b)
    IN IF r >= U32Limit THEN U32Limit - 1 ELSE r

\* the match of get_output_size: width and height before the dpr is applied
get_output_size_match(src, dst) ==
    LET sw == src[1]
        sh == src[2]
    IN IF IsSome(dst[1]) /\ IsSome(dst[2]) THEN <<dst[1][1], dst[2][1]>>
       ELSE IF IsSome(dst[1]) THEN <<dst[1][1], RoundDiv(dst[1][1] * sh, sw)>>
       ELSE IF IsSome(dst[2]) THEN <<RoundDiv(dst[2][1] * sw, sh), dst[2][1]>>
       ELSE <<sw, sh>>

\* width *= dpr or height *= dpr leaves the u32 range
get_output_size_overflows(src, dst, dpr) ==
    LET wh == get_output_size_match(src, dst)
    IN wh[1] * dpr >= U32Limit \/ wh[2] * dpr >= U32Limit

\* the value get_output_size returns when it returns: width *= dpr and
\* height *= dpr wrap around (where overflow checks are compiled in, an
\* overflowing product panics instead, see transform)
get_output_size(src, dst, dpr) ==
    LET wh == get_output_size_match(src, dst)
    IN <<(wh[1] * dpr) % U32Limit, (wh[2] * dpr) % U32Limit>>

\* A byte buffer: the bytes of a file, or the output of an encoder.
NoBytes == [src |-> "none", path |-> <<>>, fmt |-> "", w |-> 0, h |-> 0]
FileBytes(path) == [src |-> "file", path |-> Canonical(<<>>, path), fmt |-> "", w |-> 0, h |-> 0]
Encoded(path, format, size) ==
    [src |-> "encoder", path |-> Canonical(<<>>, path), fmt |-> format, w |-> size[1], h |-> size[2]]

EncodeTargets == {"WebP", "Png", "Jpeg"}

\* encode_image: `encodes` is whether the encoder accepts the pixel buffer
encode_image(format, path, size, encodes) ==
    IF format \notin EncodeTargets THEN Err(400, "Unsupported output format")
    ELSE IF ~encodes THEN Err(500, "Failed to encode image")
    ELSE Ok(Encoded(path, format, size))

\* What the environment decides for one run of the pipeline: the file opens,
\* its bytes decode, the resizer accepts the buffers, the encoder accepts them.
Envs == [opens : BOOLEAN, decodes : BOOLEAN, resizes : BOOLEAN, encodes : BOOLEAN]

\* ResizeConfig without cache_size: the names given on the command line
FilterTypes == {"lanczos3", "box", "cubic"}
Algorithms == {"interpolation", "nearest", "bicubic"}
Configs == [filter_type : FilterTypes, algorithm : Algorithms]
DefaultConfig == [filter_type |-> "lanczos3", algorithm |-> "interpolation"]

\* ResizeConfig::resize_algorithm: the filter name is matched first
resize_algorithm(config) ==
    IF config.filter_type \notin
         {"lanczos3", "gaussian", "catmull-rom", "hamming", "mitchell", "bilinear", "box"}
    THEN Panic("Unsupported filter type")
    ELSE IF config.algorithm \notin
              {"super-sampling8x", "super-sampling4x", "super-sampling2x",
               "interpolation", "convolution", "nearest"}
    THEN Panic("Unsupported resize algorithm")
    ELSE Ok(IF config.algorithm = "nearest" THEN <<"nearest">>
            ELSE <<config.algorithm, config.filter_type>>)

\* resize_image: with debug_assertions the configuration is not consulted
resize_image(config, debug, resizes) ==
    LET algorithm == IF debug THEN Ok(<<"nearest">>) ELSE resize_algorithm(config)
    IN IF ~algorithm.ok THEN algorithm
       ELSE IF ~resizes THEN Err(500, "Failed to resize image")
       ELSE Ok(algorithm.val)

\* provide_images from load_file to encode_image (the miss path); debug is
\* cfg!(debug_assertions), which also compiles in the overflow checks
transform(path, q, dst_mime, env, config, debug) ==
    IF ~env.opens THEN Err(500, "Failed to read image")
    ELSE IF ~env.decodes THEN Err(500, "Failed to decode image")
    ELSE IF debug /\ get_output_size_overflows(SrcSize(path), ImageQuery_size(q),
                                                ImageQuery_dpr(q))
    THEN Panic("attempt to multiply with overflow")
    ELSE LET size == get_output_size(SrcSize(path), ImageQuery_size(q), ImageQuery_dpr(q))
             resized == resize_image(config, debug, env.resizes)
         IN IF ~resized.ok THEN resized
            ELSE encode_image(dst_mime, path, size, env.encodes)

\* ------------------------------------------------------------ result cache
\* TimedSizedCache: entries [key, val, at] in order of use, most recent first.
RECURSIVE IndexOf(_, _, _)
IndexOf(c, key, i) ==
    IF i > Len(c) THEN 0
    ELSE IF c[i].key = key THEN i
    ELSE IndexOf(c, key, i + 1)

Without(c, i) == SubSeq(c, 1, i - 1) \o SubSeq(c, i + 1, Len(c))

Fresh(entry, now) == now - entry.at < CACHE_LIFESPAN

\* mutant: a hit leaves the entry's time as it was (refresh = false)
cache_get_NoRefresh(c, key, now) ==
    LET i == IndexOf(c, key, 1)
    IN IF i = 0 THEN [hit |-> FALSE, val |-> NoBytes, cache |-> c]
       ELSE IF Fresh(c[i], now)
            THEN [hit |-> TRUE, val |-> c[i].val, cache |-> <<c[i]>> \o Without(c, i)]
            ELSE [hit |-> FALSE, val |-> NoBytes, cache |-> Without(c, i)]

\* Cached::cache_get with refresh = true: [hit, val, cache]
cache_get(c, key, now) ==
    LET i == IndexOf(c, key, 1)
    IN IF i = 0 THEN [hit |-> FALSE, val |-> NoBytes, cache |-> c]
       ELSE IF Fresh(c[i], now)
            THEN [hit |-> TRUE, val |-> c[i].val,
                  cache |-> <<[c[i] EXCEPT !.at = now]>> \o Without(c, i)]
            ELSE [hit |-> FALSE, val |-> NoBytes, cache |-> Without(c, i)]

\* mutant: inserts without evicting
cache_set_NoEvict(c, key, val, now, size) ==
    LET i == IndexOf(c, key, 1)
        e == [key |-> key, val |-> val, at |-> now]
    IN IF i # 0 THEN <<e>> \o Without(c, i) ELSE <<e>> \o c

\* mutant: a full cache gives up its most recently used entry
cache_set_EvictNewest(c, key, val, now, size) ==
    LET i == IndexOf(c, key, 1)
        e == [key |-> key, val |-> val, at |-> now]
    IN IF i # 0 THEN <<e>> \o Without(c, i)
       ELSE IF Len(c) >= size THEN <<e>> \o Tail(c)
       ELSE <<e>> \o c

\* mutant: a present key is inserted like a new one
cache_set_Duplicate(c, key, val, now, size) ==
    LET e == [key |-> key, val |-> val, at |-> now]
    IN IF Len(c) >= size THEN <<e>> \o Front(c) ELSE <<e>> \o c

\* Cached::cache_set on a cache of `size` entries
cache_set(c, key, val, now, size) ==
    LET i == IndexOf(c, key, 1)
        e == [key |-> key, val |-> val, at |-> now]
    IN IF i # 0 THEN <<e>> \o Without(c, i)
       ELSE IF Len(c) >= size THEN <<e>> \o Front(c)
       ELSE <<e>> \o c

\* ------------------------------------------------------------------ state
Reqs == {"r1", "r2"}
Free == ""

VARIABLES
    config,      \* ResizeConfig.filter_type and ResizeConfig.algorithm
    debug_assertions,  \* cfg!(debug_assertions) of the build that runs
    cache_size,  \* ResizeConfig.cache_size
    server,      \* "boot", "serving", or "panicked" in get_images_router
    cache,       \* the TimedSizedCache behind the mutex
    lock,        \* the request holding the cache mutex, or Free
    clock,       \* seconds since the server started
    ticks,       \* how often the clock has advanced
    req          \* per request: where provide_images stands, its input, its response

vars == <<config, debug_assertions, cache_size, server, cache, lock, clock, ticks, req>>

NoPath == [rooted |-> FALSE, segs |-> <<>>]
RawQuery(output, dpr, w, h) == [output |-> output, dpr |-> dpr, w |-> w, h |-> h]
NoQuery == RawQuery(None, Absent, Absent, Absent)

\* a response: status and message, the branch of provide_images that built it
\* ("rejected" before the gate, "original", "cached", "processed", or "aborted"
\* with status 0 when the handler panicked and nothing was sent), the format
\* named by Content-Type and the byte source handed to the range responder
Response(status, msg, route, mime, body) ==
    [status |-> status, msg |-> msg, route |-> route, mime |-> mime, body |-> body]
NoResponse == Response(0, "", "", "", NoBytes)

Idle == [pc |-> "idle", path |-> NoPath, raw |-> NoQuery, resp |-> NoResponse, bytes |-> NoBytes]

\* values provide_images derives from its input once the input is accepted
QueryOf(raw) == QueryExtract(raw).val
PathOf(rel_path) == get_path_and_mime(rel_path).val[1]
RawMimeOf(rel_path) == get_path_and_mime(rel_path).val[2]
DstMimeOf(rel_path, raw) ==
    UnwrapOr(ImageQuery_output(QueryOf(raw)).val, RawMimeOf(rel_path))
\* mutant: the cache is keyed by the path alone
CacheKey_PathOnly(rel_path, raw) == <<PathOf(rel_path), QueryOf(NoQuery)>>

\* the key of cache_get and cache_set: (path.clone(), query.clone())
CacheKey(rel_path, raw) == <<PathOf(rel_path), QueryOf(raw)>>

Rejected(e) == [pc |-> "done", resp |-> Response(e.status, e.msg, "rejected", "", NoBytes)]

\* mutant: the cache is consulted before the gate is looked at
Prologue_LookupFirst(rel_path, raw) ==
    LET query == QueryExtract(raw)
        pm == get_path_and_mime(rel_path)
    IN IF ~query.ok THEN Rejected(query)
       ELSE IF ~pm.ok THEN Rejected(pm)
       ELSE LET out == ImageQuery_output(query.val)
            IN IF ~out.ok THEN Rejected(out)
               ELSE [pc |-> "lookup", resp |-> NoResponse]

\* provide_images from the extractors to the decision gate
Prologue(rel_path, raw) ==
    LET query == QueryExtract(raw)
        pm == get_path_and_mime(rel_path)
    IN IF ~query.ok THEN Rejected(query)
       ELSE IF ~pm.ok THEN Rejected(pm)
       ELSE LET out == ImageQuery_output(query.val)
            IN IF ~out.ok THEN Rejected(out)
               ELSE IF eq_raw(query.val, pm.val[2], UnwrapOr(out.val, pm.val[2]))
                       \/ exclude(pm.val[2])
                    THEN [pc |-> "original", resp |-> NoResponse]
                    ELSE [pc |-> "lookup", resp |-> NoResponse]

\* mutant: the result of the pipeline is stored before it is looked at
AfterTransform_StoreFirst(res) == "store"

\* the `?` after encode_image: only an Ok result goes on to cache_set
AfterTransform(res) == IF res.ok THEN "store" ELSE "done"

\* the release build with the default names, and any cache size
Init ==
    /\ config = DefaultConfig
    /\ debug_assertions = FALSE
    /\ cache_size \in 0 .. MaxCacheSize
    /\ server = "boot"
    /\ cache = <<>>
    /\ lock = Free
    /\ clock = 0
    /\ ticks = 0
    /\ req = [r \in Reqs |-> Idle]

\* get_images_router: TimedSizedCache refuses a size of 0 by panicking
Startup ==
    /\ server = "boot"
    /\ server' = IF cache_size = 0 THEN "panicked" ELSE "serving"
    /\ UNCHANGED <<config, debug_assertions, cache_size, cache, lock, clock, ticks, req>>

\* a request arrives and provide_images runs up to the decision gate;
\* inputs is a set of <<request path, raw query>>
Arrive(r, inputs) ==
    /\ server = "serving"
    /\ req[r].pc \in {"idle", "done"}
    /\ \E in \in inputs :
         LET pro == Prologue(in[1], in[2])
         IN req' = [req EXCEPT ![r] = [pc |-> pro.pc, path |-> in[1], raw |-> in[2],
                                       resp |-> pro.resp, bytes |-> NoBytes]]
    /\ UNCHANGED <<config, debug_assertions, cache_size, server, cache, lock, clock, ticks>>

\* pass-through: load_file and the file as the body
ServeOriginal(r) ==
    /\ req[r].pc = "original"
    /\ \E opens \in BOOLEAN :
         req' = [req EXCEPT ![r].pc = "done",
                    ![r].resp =
                        IF opens
                        THEN Response(200, "", "original", DstMimeOf(req[r].path, req[r].raw),
                                      FileBytes(PathOf(req[r].path)))
                        ELSE Response(500, "Failed to read image", "original", "", NoBytes)]
    /\ UNCHANGED <<config, debug_assertions, cache_size, server, cache, lock, clock, ticks>>

\* mutant: the guard taken for the lookup is kept on a miss as well
LockAfterGet_Kept(r, hit) == r

\* the guard of cache.lock().await is a temporary of the `if let` scrutinee:
\* it is dropped where the `if let` ends, after the hit branch or at once
LockAfterGet(r, hit) == IF hit THEN r ELSE Free

\* cache.lock().await.cache_get(..): the guard lives on through the hit branch
CacheGet(r) ==
    /\ req[r].pc = "lookup"
    /\ lock = Free
    /\ LET got == cache_get(cache, CacheKey(req[r].path, req[r].raw), clock)
       IN /\ cache' = got.cache
          /\ lock' = LockAfterGet(r, got.hit)
          /\ req' = [req EXCEPT ![r].pc = IF got.hit THEN "hit" ELSE "miss",
                                ![r].bytes = got.val]
    /\ UNCHANGED <<config, debug_assertions, cache_size, server, clock, ticks>>

\* the hit branch: the cached bytes as the body, then the guard is dropped
ServeCached(r) ==
    /\ req[r].pc = "hit"
    /\ lock = r
    /\ lock' = Free
    /\ req' = [req EXCEPT ![r].pc = "done", ![r].bytes = NoBytes,
                  ![r].resp = Response(200, "", "cached",
                                       DstMimeOf(req[r].path, req[r].raw), req[r].bytes)]
    /\ UNCHANGED <<config, debug_assertions, cache_size, server, cache, clock, ticks>>

\* the miss branch from load_file to encode_image, without the lock
Transform(r) ==
    /\ req[r].pc = "miss"
    /\ \E env \in Envs :
         LET res == transform(PathOf(req[r].path), QueryOf(req[r].raw),
                              DstMimeOf(req[r].path, req[r].raw), env,
                              config, debug_assertions)
         IN req' = [req EXCEPT
                        ![r].pc = AfterTransform(res),
                        ![r].bytes = IF res.ok THEN res.val ELSE NoBytes,
                        ![r].resp = IF res.ok THEN NoResponse
                                    ELSE Response(res.status, res.msg,
                                                  IF res.status = 0 THEN "aborted"
                                                  ELSE "processed", "", NoBytes)]
    /\ UNCHANGED <<config, debug_assertions, cache_size, server, cache, lock, clock, ticks>>

\* cache.lock().await.cache_set(..) and the response with the new bytes
CacheSet(r) ==
    /\ req[r].pc = "store"
    /\ lock = Free
    /\ cache' = cache_set(cache, CacheKey(req[r].path, req[r].raw), req[r].bytes,
                          clock, cache_size)
    /\ req' = [req EXCEPT ![r].pc = "done", ![r].bytes = NoBytes,
                  ![r].resp = Response(200, "", "processed",
                                       DstMimeOf(req[r].path, req[r].raw), req[r].bytes)]
    /\ UNCHANGED <<config, debug_assertions, cache_size, server, lock, clock, ticks>>

\* time passes, by one of the given numbers of seconds
Tick(steps) ==
    /\ server = "serving"
    /\ ticks < MaxTicks
    /\ \E d \in steps : clock' = clock + d
    /\ ticks' = ticks + 1
    /\ UNCHANGED <<config, debug_assertions, cache_size, server, cache, lock, req>>

Step(r) ==
    ServeOriginal(r) \/ CacheGet(r) \/ ServeCached(r) \/ Transform(r) \/ CacheSet(r)

\* ------------------------------------------------------------ inputs
Rel(segs) == [rooted |-> FALSE, segs |-> segs]

\* concurrent requests for one image and a GIF, with the dpr values that
\* normalise to the same transform
SharedInputs ==
    { <<Rel(<<"a.png">>), RawQuery(None, Num(3), Num(2), Absent)>>,
      <<Rel(<<"a.png">>), RawQuery(None, Num(10), Num(2), Absent)>>,
      <<Rel(<<"a.png">>), RawQuery(Some("gif"), Absent, Num(2), Absent)>>,
      <<Rel(<<"b.gif">>), RawQuery(None, Absent, Num(2), Absent)>> }

Next ==
    \/ Startup
    \/ Tick({CACHE_LIFESPAN})
    \/ \E r \in Reqs : Arrive(r, SharedInputs)
    \/ \E r \in Reqs : Step(r)

Spec == Init /\ [][Next]_vars

\* requests one at a time while time passes in steps around the lifespan
TimedReqs == {"r1"}
TimedInputs ==
    { <<Rel(<<"a.png">>), RawQuery(None, Absent, Num(2), Absent)>>,
      <<Rel(<<"a.png">>), RawQuery(None, Num(3), Num(2), Absent)>>,
      <<Rel(<<"a.png">>), RawQuery(None, Num(10), Num(2), Absent)>>,
      <<Rel(<<"a.png">>), RawQuery(Some("gif"), Absent, Num(2), Absent)>>,
      <<Rel(<<"a.png">>), RawQuery(Some("xyz"), Absent, Num(2), Absent)>>,
      <<Rel(<<"b.gif">>), RawQuery(Some("xyz"), Absent, Absent, Absent)>>,
      <<Rel(<<"b.gif">>), RawQuery(None, Absent, Num(2), Absent)>>,
      <<Rel(<<"a.png">>), NoQuery>>,
      <<Rel(<<"a.png">>), RawQuery(None, Absent, Junk, Absent)>>,
      <<Rel(<<"n.txt">>), RawQuery(None, Absent, Num(2), Absent)>>,
      <<Rel(<<"zz.png">>), RawQuery(None, Absent, Num(2), Absent)>> }

NextTime ==
    \/ Startup
    \/ Tick({1, CACHE_LIFESPAN - 1})
    \/ \E r \in TimedReqs : Arrive(r, TimedInputs)
    \/ \E r \in TimedReqs : Step(r)

SpecTime == Init /\ [][NextTime]_vars

\* one request at a time over every combination of query parameters
GateReqs == {"r1"}
GatePaths ==
    { Rel(<<"a.png">>), Rel(<<"b.gif">>), Rel(<<"c.ico">>), Rel(<<"n.txt">>),
      Rel(<<"zz.png">>) }
GateOutputs == {None, Some("png"), Some("jpg"), Some("gif"), Some("xyz")}
GateDprs == {Absent, Num(-1), Num(0), Num(1), Num(3), Num(10), Num(U32Limit - 1)}
GateWidths == {Absent, Num(2), Junk}
GateHeights == {Absent, Num(3)}
GateInputs ==
    { <<p, RawQuery(o, d, w, h)>> :
        p \in GatePaths, o \in GateOutputs, d \in GateDprs, w \in GateWidths,
        h \in GateHeights }

InitGate == Init /\ cache_size = 1

\* the first request after startup
NextGate ==
    \/ Startup
    \/ \E r \in GateReqs : req[r].pc = "idle" /\ Arrive(r, GateInputs)
    \/ \E r \in GateReqs :
         ServeOriginal(r) \/ CacheGet(r) \/ Transform(r) \/ CacheSet(r)

SpecGate == InitGate /\ [][NextGate]_vars

\* one request at a time over every request path of up to MaxSegs components
Segments == {"..", ".", "d", "a.png", "s.png"}
RequestPaths ==
    { [rooted |-> b, segs |-> s] :
        b \in BOOLEAN, s \in UNION { [1 .. n -> Segments] : n \in 1 .. MaxSegs } }
PathInputs == { <<p, NoQuery>> : p \in RequestPaths }

NextPath ==
    \/ Startup
    \/ \E r \in GateReqs : Arrive(r, PathInputs)
    \/ \E r \in GateReqs : ServeOriginal(r)

SpecPath == Init /\ [][NextPath]_vars

\* ------------------------------------------------------------------ claims
\* the request has been taken up and was not rejected before the decision gate
ReachedGate(r) == req[r].pc # "idle" /\ req[r].resp.route # "rejected"
\* get_path_and_mime returned Ok for the request's path
Resolved(r) == req[r].pc # "idle" /\ get_path_and_mime(req[r].path).ok

\* C1: every request path either resolves to a file inside the root subtree or
\* is rejected; no request resolves to a file outside root.  The code cleans
\* "../s.png" to itself, joins it to root and serves /srv/s.png.
C1_ResolvedInsideRoot ==
    \A r \in Reqs :
        ReachedGate(r) => InsideRoot(PathOf(req[r].path))

\* C2: with no w, no h, an effective dpr of 1 (absent, 0 or 1) and a destination
\* format equal to the source format, provide_images takes the pass-through
\* branch: it never enters the cache or the transform pipeline, and a
\* successful response carries the bytes of the source file.
C2_DprIsOne(raw) == ~raw.dpr.present \/ (raw.dpr.numeric /\ raw.dpr.val \in {0, 1})
C2_Case(r) ==
    /\ ReachedGate(r)
    /\ ~req[r].raw.w.present /\ ~req[r].raw.h.present
    /\ C2_DprIsOne(req[r].raw)
    /\ DstMimeOf(req[r].path, req[r].raw) = RawMimeOf(req[r].path)
C2_PassThrough ==
    \A r \in Reqs :
        C2_Case(r) =>
            /\ req[r].pc \in {"original", "done"}
            /\ req[r].bytes = NoBytes
            /\ req[r].pc = "done" =>
                 /\ req[r].resp.route = "original"
                 /\ req[r].resp.status \in {200, 500}
                 /\ req[r].resp.status = 200 =>
                      req[r].resp.body =
                          [src |-> "file", path |-> Root \o req[r].path.segs,
                           fmt |-> "", w |-> 0, h |-> 0]
C2_Witness ==
    \E r \in Reqs :
        /\ C2_Case(r)
        /\ req[r].raw.output = Some("png") /\ req[r].raw.dpr = Num(0)
        /\ req[r].pc = "done" /\ req[r].resp.status = 200
        /\ req[r].resp.body.src = "file"

\* w, h and dpr are absent or the text of a u32, so the Query extractor
\* yields an ImageQuery
NumbersParse(raw) ==
    \A f \in {raw.dpr, raw.w, raw.h} :
        f.present => (f.numeric /\ f.val >= 0 /\ f.val < U32Limit)
TookOriginal(r) == req[r].pc = "original" \/ req[r].resp.route = "original"

\* C7: the effective dpr is 1 for an absent dpr and for 0, 3 for every value
\* above 3 and the value itself otherwise, and the request is served as the
\* request with that dpr would be: not rejected, the same branch of the
\* decision gate, and an output of the size computed with the clamped dpr.
C7_Clamped(dpr) ==
    IF ~dpr.present THEN 1
    ELSE IF dpr.val < 1 THEN 1
    ELSE IF dpr.val > 3 THEN 3
    ELSE dpr.val
C7_Size(r) ==
    get_output_size(SrcSize(PathOf(req[r].path)),
                    <<QueryOf(req[r].raw).w, QueryOf(req[r].raw).h>>,
                    C7_Clamped(req[r].raw.dpr))
C7_DprClamped ==
    \A r \in Reqs :
        (req[r].pc # "idle" /\ NumbersParse(req[r].raw)) =>
            /\ ImageQuery_dpr(QueryOf(req[r].raw)) = C7_Clamped(req[r].raw.dpr)
            /\ req[r].resp.msg # "Failed to deserialize query string"
            /\ ReachedGate(r) =>
                 (TookOriginal(r) <=>
                    Prologue(req[r].path,
                             [req[r].raw EXCEPT !.dpr = Num(C7_Clamped(req[r].raw.dpr))]).pc
                        = "original")
            /\ req[r].pc = "store" =>
                 <<req[r].bytes.w, req[r].bytes.h>> = C7_Size(r)
            /\ (req[r].resp.status = 200 /\ req[r].resp.route \in {"cached", "processed"}) =>
                 <<req[r].resp.body.w, req[r].resp.body.h>> = C7_Size(r)
C7_Witness ==
    \E r \in Reqs :
        /\ req[r].raw.dpr = Num(10) /\ req[r].raw.w = Num(2) /\ ~req[r].raw.h.present
        /\ req[r].pc = "done" /\ req[r].resp.status = 200
        /\ req[r].resp.route = "processed"
        /\ req[r].resp.body.w = 6 /\ req[r].resp.body.h = 3

\* C8: a source in ICO or GIF format is always served by pass-through,
\* whatever the ImageQuery holds (original statement: whatever w, h, dpr or
\* output).  An output that names no image format is rejected with 400
\* before the gate, also for these sources.
C8_Source(r) ==
    /\ Resolved(r)
    /\ RawMimeOf(req[r].path) \in {"Ico", "Gif"}
    /\ NumbersParse(req[r].raw)
C8_AnyOutputPassesThrough ==
    \A r \in Reqs :
        C8_Source(r) =>
            /\ req[r].pc \in {"original", "done"}
            /\ req[r].pc = "done" => req[r].resp.route = "original"

\* C8 as amended: with an output that is absent or names a known image
\* format, a request for an ICO or GIF source takes the pass-through branch
\* whatever w, h and dpr are; it never enters the cache or the pipeline, and
\* a successful response carries the bytes of the source file.
C8_KnownOutput(raw) ==
    IsNone(raw.output) \/ IsSome(find_image_mime(MimeGuess_from_ext(raw.output[1])))
C8_ExcludedPassThrough ==
    \A r \in Reqs :
        C8_Source(r) =>
            IF C8_KnownOutput(req[r].raw)
            THEN /\ req[r].pc \in {"original", "done"}
                 /\ req[r].bytes = NoBytes
                 /\ cache = <<>>
                 /\ req[r].pc = "done" =>
                      /\ req[r].resp.route = "original"
                      /\ req[r].resp.status \in {200, 500}
                      /\ req[r].resp.status = 200 =>
                           req[r].resp.body =
                               [src |-> "file", path |-> Root \o req[r].path.segs,
                                fmt |-> "", w |-> 0, h |-> 0]
            ELSE /\ req[r].pc = "done"
                 /\ req[r].resp.route = "rejected"
                 /\ req[r].resp.status = 400
C8_Witness ==
    \E r \in Reqs :
        /\ C8_Source(r)
        /\ RawMimeOf(req[r].path) = "Ico"
        /\ req[r].raw.w = Num(2) /\ req[r].raw.dpr = Num(3)
        /\ req[r].raw.output = Some("jpg")
        /\ req[r].pc = "done" /\ req[r].resp.status = 200
        /\ req[r].resp.body.src = "file"

\* the request went past the decision gate to the cache
UsesCache(r) ==
    \/ req[r].pc \in {"lookup", "hit", "miss", "store"}
    \/ req[r].resp.route \in {"cached", "processed"}

\* C3: two requests use the same cache key if and only if they have the same
\* resolved path and equal normalized transform requests (output format,
\* width, height, dpr clamped to [1,3]).  The code keys the cache by the
\* ImageQuery as received: dpr=10 and dpr=3 get different keys.
C3_Normalized(r) ==
    LET q == QueryOf(req[r].raw)
    IN [output |-> ImageQuery_output(q).val, w |-> q.w, h |-> q.h,
        dpr |-> C7_Clamped(req[r].raw.dpr)]
C3_SameKeyIffSameTransform ==
    \A r1, r2 \in Reqs :
        (UsesCache(r1) /\ UsesCache(r2)) =>
            (CacheKey(req[r1].path, req[r1].raw) = CacheKey(req[r2].path, req[r2].raw)
               <=> /\ PathOf(req[r1].path) = PathOf(req[r2].path)
                   /\ C3_Normalized(r1) = C3_Normalized(r2))

\* C4: the cache never holds more entries than cache_size, and no key twice
C4_CacheWithinCapacity ==
    /\ Len(cache) <= cache_size
    /\ \A i, j \in 1 .. Len(cache) : cache[i].key = cache[j].key => i = j
C4_Witness ==
    /\ cache_size = 1
    /\ Len(cache) = 1
    /\ \E r \in Reqs :
         /\ req[r].pc = "done" /\ req[r].resp.route = "processed"
         /\ req[r].resp.status = 200
         /\ cache[1].key # CacheKey(req[r].path, req[r].raw)
         /\ cache[1].at = clock

\* C5: with cache_size = 0 the service starts and serves requests with
\* caching disabled.  TimedSizedCache panics on a size of 0, in
\* get_images_router.
C5_ZeroSizeServes == cache_size = 0 => server \in {"boot", "serving"}

\* C6: a request that fails in the transform path leaves the cache as it is:
\* the failing step changes nothing, and an entry is inserted or overwritten
\* only by the cache_set of a request whose pipeline returned Ok, with the
\* encoder's output that this request then sends.
C6_Has(c, key, val) == \E j \in 1 .. Len(c) : c[j].key = key /\ c[j].val = val
C6_OnlySuccessIsCached ==
    [][ /\ \A r \in Reqs :
             (req[r].pc = "miss" /\ req'[r].pc = "done") =>
                 /\ req'[r].resp.status \in {400, 500}
                 /\ cache' = cache
        /\ \A i \in 1 .. Len(cache') :
             ~C6_Has(cache, cache'[i].key, cache'[i].val) =>
                 \E r \in Reqs :
                     /\ req[r].pc = "store" /\ req'[r].pc = "done"
                     /\ req[r].bytes.src = "encoder"
                     /\ cache'[i].key = CacheKey(req[r].path, req[r].raw)
                     /\ cache'[i].val = req[r].bytes
                     /\ req'[r].resp.status = 200
                     /\ req'[r].resp.body = cache'[i].val ]_vars
C6_Witness ==
    \E r \in Reqs :
        /\ req[r].pc = "done" /\ req[r].resp.route = "processed"
        /\ req[r].resp.msg = "Failed to encode image"
        /\ cache # <<>>
        /\ \A i \in 1 .. Len(cache) : cache[i].key # CacheKey(req[r].path, req[r].raw)

\* the request's own identity in the cache: its resolved path and its query
RequestKey(r) == <<PathOf(req[r].path), QueryOf(req[r].raw)>>
LookupDone(r) == req[r].pc = "lookup" /\ req'[r].pc # "lookup"
Stored(r) == req[r].pc = "store" /\ req'[r].pc = "done"

\* C9: once a transform request has succeeded and its bytes are cached, a
\* later request with the same path and query that finds the entry inside the
\* lifespan is answered from the cache with the bytes of that first response,
\* without running the pipeline: the entry holds the bytes the storing request
\* sent, keeps them until a cache_set for its key, and a lookup that finds it
\* fresh goes to the hit branch, which sends exactly these bytes.
C9_HitServesCachedBytes ==
    [][ \A r \in Reqs :
          /\ Stored(r) =>
               /\ req'[r].resp.status = 200
               /\ \E j \in 1 .. Len(cache') :
                    /\ cache'[j].key = RequestKey(r)
                    /\ cache'[j].val = req'[r].resp.body
          /\ \A i \in 1 .. Len(cache), j \in 1 .. Len(cache') :
               (cache[i].key = cache'[j].key /\ cache[i].val # cache'[j].val) =>
                   \E s \in Reqs : Stored(s) /\ RequestKey(s) = cache[i].key
          /\ \A i \in 1 .. Len(cache) :
               (LookupDone(r) /\ cache[i].key = RequestKey(r)
                  /\ clock - cache[i].at < 24 * 60 * 60) =>
                   /\ req'[r].pc = "hit"
                   /\ req'[r].bytes = cache[i].val
          /\ (req[r].pc = "hit" /\ req'[r].pc # "hit") =>
               /\ req'[r].pc = "done"
               /\ req'[r].resp.status = 200
               /\ req'[r].resp.route = "cached"
               /\ req'[r].resp.body = req[r].bytes
          /\ req[r].pc = "hit" =>
               req[r].bytes = Encoded(PathOf(req[r].path),
                                      DstMimeOf(req[r].path, req[r].raw), C7_Size(r)) ]_vars
C9_Witness ==
    \E r \in Reqs :
        /\ req[r].pc = "done" /\ req[r].resp.route = "cached"
        /\ req[r].resp.status = 200
        /\ req[r].raw.dpr = Num(3)
        /\ req[r].resp.body.src = "encoder" /\ req[r].resp.body.w = 6
        /\ clock > 0

\* C10: a lookup hits if and only if the cache holds an entry for the key whose
\* time (set by the insert, restarted by every hit) is less than the lifespan
\* of 24 hours ago; a hit restarts it; after the lifespan the lookup misses,
\* the request runs the pipeline and its cache_set enters the key again with
\* the current time.
C10_SlidingExpiry ==
    [][ \A r \in Reqs :
          /\ LookupDone(r) =>
               /\ req'[r].pc \in {"hit", "miss"}
               /\ req'[r].pc = "hit" <=>
                    \E i \in 1 .. Len(cache) :
                        /\ cache[i].key = RequestKey(r)
                        /\ clock - cache[i].at < 24 * 60 * 60
               /\ req'[r].pc = "hit" =>
                    \E j \in 1 .. Len(cache') :
                        cache'[j].key = RequestKey(r) /\ cache'[j].at = clock
          /\ (req[r].pc = "miss" /\ req'[r].pc # "miss") =>
               \/ req'[r].pc = "store"
               \/ req'[r].pc = "done" /\ req'[r].resp.status \in {400, 500}
          /\ Stored(r) =>
               \E j \in 1 .. Len(cache') :
                   /\ cache'[j].key = RequestKey(r)
                   /\ cache'[j].at = clock
                   /\ cache'[j].val = req[r].bytes
          /\ \A i \in 1 .. Len(cache), j \in 1 .. Len(cache') :
               (cache[i].key = cache'[j].key /\ cache[i].at # cache'[j].at) =>
                   \E s \in Reqs :
                       /\ RequestKey(s) = cache[i].key
                       /\ Stored(s) \/ (LookupDone(s) /\ req'[s].pc = "hit") ]_vars
C10_Witness ==
    \E r \in Reqs :
        /\ req[r].pc = "hit"
        /\ clock >= 24 * 60 * 60
        /\ \E i \in 1 .. Len(cache) :
             cache[i].key = RequestKey(r) /\ cache[i].at = clock

\* ------------------------------------------- builds, configurations, sizes
\* the first request after startup, for every build profile and every pair of
\* configured names, over sizes up to the end of the u32 range
SizePaths == { Rel(<<"a.png">>), Rel(<<"p.jpg">>) }
SizeWidths == {Absent, Num(3), Num(400), Num(U32Limit - 1)}
SizeHeights == {Absent, Num(3), Num(300)}
SizeDprs == {Absent, Num(2), Num(3)}
SizeInputs ==
    { <<p, RawQuery(None, d, w, h)>> :
        p \in SizePaths, d \in SizeDprs, w \in SizeWidths, h \in SizeHeights }

InitBuild ==
    /\ config \in Configs
    /\ debug_assertions \in BOOLEAN
    /\ cache_size = 1
    /\ server = "boot"
    /\ cache = <<>>
    /\ lock = Free
    /\ clock = 0
    /\ ticks = 0
    /\ req = [r \in Reqs |-> Idle]

NextBuild ==
    \/ Startup
    \/ \E r \in GateReqs : req[r].pc = "idle" /\ Arrive(r, SizeInputs)
    \/ \E r \in GateReqs :
         ServeOriginal(r) \/ CacheGet(r) \/ Transform(r) \/ CacheSet(r)

SpecBuild == InitBuild /\ [][NextBuild]_vars

\* n is a / b rounded to the nearest integer, halves away from zero (b > 0)
IsRounded(n, a, b) == 2 * n * b - b <= 2 * a /\ 2 * a < 2 * n * b + b

\* the image a request has produced: the bytes it is about to store
Produced(r) == req[r].pc = "store"

\* C11: the missing dimension comes from the source aspect ratio and both
\* are then multiplied by dpr: only w gives (w*dpr, round(w/(sw/sh))*dpr),
\* only h gives (round(h*(sw/sh))*dpr, h*dpr), neither gives (sw*dpr, sh*dpr);
\* from an 800x600 source w=400 gives 400x300, w=400 with dpr=2 gives 800x600
\* and h=300 gives width 400.
C11_ScaledFromAspectRatio ==
    \A r \in Reqs :
        Produced(r) =>
            LET q == QueryOf(req[r].raw)
                src == SrcSize(PathOf(req[r].path))
                dpr == ImageQuery_dpr(q)
                out == req[r].bytes
            IN /\ (IsSome(q.w) /\ IsNone(q.h)) =>
                    /\ out.w = q.w[1] * dpr
                    /\ out.h % dpr = 0
                    /\ IsRounded(out.h \div dpr, q.w[1] * src[2], src[1])
               /\ (IsNone(q.w) /\ IsSome(q.h)) =>
                    /\ out.h = q.h[1] * dpr
                    /\ out.w % dpr = 0
                    /\ IsRounded(out.w \div dpr, q.h[1] * src[1], src[2])
               /\ (IsNone(q.w) /\ IsNone(q.h)) =>
                    out.w = src[1] * dpr /\ out.h = src[2] * dpr
               /\ (src = <<800, 600>> /\ q.w = Some(400) /\ IsNone(q.h)) =>
                    <<out.w, out.h>> = <<400 * dpr, 300 * dpr>>
               /\ (src = <<800, 600>> /\ IsNone(q.w) /\ q.h = Some(300)) =>
                    out.w = 400 * dpr

\* the raw query with every parameter that is no u32 taken out
AsAbsent(f) ==
    IF f.present /\ ~(f.numeric /\ f.val >= 0 /\ f.val < U32Limit) THEN Absent ELSE f
Lenient(raw) ==
    [raw EXCEPT !.dpr = AsAbsent(@), !.w = AsAbsent(@), !.h = AsAbsent(@)]

\* C12: a w, h or dpr whose value is no unsigned integer is treated as
\* absent: the request is not rejected for it and is handled like the same
\* request without that parameter.
C12_UnparsableIsAbsent ==
    \A r \in Reqs :
        (req[r].pc # "idle" /\ ~NumbersParse(req[r].raw)) =>
            /\ req[r].resp.msg # "Failed to deserialize query string"
            /\ req[r].resp.route = "rejected" =>
                 req[r].resp = Prologue(req[r].path, Lenient(req[r].raw)).resp

\* the file a request names, and the formats its extension and its output
\* parameter stand for
NamedFile(r) == join(Root, strip_prefix(clean(req[r].path)))
ExtensionFormat(r) == find_image_mime(MimeGuess_from_path(NamedFile(r)))
OverrideFormat(r) ==
    IF IsNone(req[r].raw.output) THEN None
    ELSE find_image_mime(MimeGuess_from_ext(req[r].raw.output[1]))

\* C13: a file whose extension names no image format is accepted when the
\* request has a valid output override, which then gives the source format;
\* "Unsupported file type" is the answer only when neither the extension nor
\* the override determines a format.
C13_OverrideGivesSourceFormat ==
    \A r \in Reqs :
        (req[r].pc # "idle" /\ NumbersParse(req[r].raw) /\ is_file(NamedFile(r))) =>
            /\ (IsNone(ExtensionFormat(r)) /\ IsSome(OverrideFormat(r))) => ReachedGate(r)
            /\ req[r].resp.msg = "Unsupported file type" =>
                 (IsNone(ExtensionFormat(r)) /\ IsNone(OverrideFormat(r)))

\* the request r takes up in this step names a file with an image extension,
\* its query deserializes, and its output parameter names no image format
UnknownOutputArrives(r) ==
    /\ req[r].pc \in {"idle", "done"}
    /\ req'[r].pc # "idle"
    /\ req'[r] # req[r]
    /\ NumbersParse(req'[r].raw)
    /\ get_path_and_mime(req'[r].path).ok
    /\ IsSome(req'[r].raw.output)
    /\ IsNone(find_image_mime(MimeGuess_from_ext(req'[r].raw.output[1])))

\* C14: an output parameter that names no image format fails the request
\* with 400 and a message naming the value, for every path that resolves to
\* an existing image file; the source format is not used instead and the
\* cache is left as it was.
C14_UnknownOutputRejected ==
    [][ \A r \in Reqs :
          UnknownOutputArrives(r) =>
              /\ req'[r].pc = "done"
              /\ req'[r].resp =
                   Response(400, "Unsupported output format: " \o req'[r].raw.output[1],
                            "rejected", "", NoBytes)
              /\ cache' = cache ]_vars
C14_Witness ==
    \E r \in Reqs :
        /\ req[r].pc = "done"
        /\ req[r].raw.output = Some("xyz")
        /\ req[r].resp.status = 400
        /\ req[r].resp.msg = "Unsupported output format: xyz"
        /\ Len(cache) > 0

\* no request is aborted by a panic of ResizeConfig::resize_algorithm
NoRequestMeetsUnknownName ==
    \A r \in Reqs :
        req[r].resp.msg \notin {"Unsupported filter type", "Unsupported resize algorithm"}

\* C15: a filter or algorithm name that ResizeConfig does not know is
\* rejected when the service starts, before any request is accepted: the
\* server never serves with such a name, and no request is the first to
\* detect it.
C15_NamesRejectedAtStartup ==
    /\ server = "serving" => resize_algorithm(config).ok
    /\ NoRequestMeetsUnknownName

\* C16 as stated: the mutex is held only while one cache_get or one
\* cache_set runs, so between the steps of the handler nobody holds it.
C16_LockOnlyInsideOneCall == lock = Free

\* C16: the cache mutex is never held across load_file, load_image,
\* resize_image or encode_image.  On a miss the guard of the lookup is gone
\* before the pipeline starts and the lock is taken again only for cache_set;
\* the one holder outside a cache call is a request in its hit branch, which
\* keeps the guard until the cached bytes are in its response.
C16_LockNeverAcrossPipeline ==
    /\ lock \in Reqs \cup {Free}
    /\ \A r \in Reqs : lock = r <=> req[r].pc = "hit"
    /\ \A r \in Reqs : req[r].pc \in {"miss", "store"} => lock # r
C16_Witness ==
    \E r, s \in Reqs :
        /\ r # s
        /\ req[r].pc = "miss"
        /\ req[s].pc = "hit" /\ lock = s

KeysOf(c) == { c[j].key : j \in 1 .. Len(c) }
EntriesFor(c, key) == { j \in 1 .. Len(c) : c[j].key = key }

LastUse(c, key) == c[CHOOSE j \in 1 .. Len(c) : c[j].key = key].at

C19_ExactProducts ==
    \A r \in Reqs :
        (req[r].pc # "idle" /\ QueryExtract(req[r].raw).ok
           /\ IsSome(QueryOf(req[r].raw).w) /\ IsSome(QueryOf(req[r].raw).h)) =>
            LET q == QueryOf(req[r].raw)
                dpr == ImageQuery_dpr(q)
            IN /\ req[r].resp.msg # "attempt to multiply with overflow"
               /\ Produced(r) =>
                    /\ req[r].bytes.w = q.w[1] * dpr
                    /\ req[r].bytes.h = q.h[1] * dpr

\* C20: in every successful response Content-Type names the format of the
\* bytes in the body: the format of the source file on the pass-through path
\* (also for an ICO or GIF source requested with another output), the format
\* the bytes were encoded in on the cached and transformed paths.
C20_ContentTypeNamesBody ==
    \A r \in Reqs :
        req[r].resp.status = 200 =>
            /\ req[r].resp.route = "original" =>
                 /\ req[r].resp.body.src = "file"
                 /\ req[r].resp.mime = RawMimeOf(req[r].path)
            /\ req[r].resp.route \in {"cached", "processed"} =>
                 /\ req[r].resp.body.src = "encoder"
                 /\ req[r].resp.mime = req[r].resp.body.fmt

\* the request r holds after this step is one the Path Resolver or the Query
\* Interpreter rejects (404 or 400 before the gate)
RejectedEarly(path, raw) ==
    \/ ~QueryExtract(raw).ok
    \/ ~get_path_and_mime(path).ok
    \/ ~ImageQuery_output(QueryOf(raw)).ok
\* or one the gate serves by pass-through: no w, no h, a dpr of 1 and the
\* format of the source, or a source in ICO or GIF format
PassedThrough(path, raw) ==
    /\ ~RejectedEarly(path, raw)
    /\ \/ RawMimeOf(path) \in {"Ico", "Gif"}
       \/ /\ ~raw.w.present /\ ~raw.h.present
          /\ C7_Clamped(raw.dpr) = 1
          /\ DstMimeOf(path, raw) = RawMimeOf(path)

\* C21: a request served by pass-through and a request rejected by the Path
\* Resolver or the Query Interpreter neither read nor write the cache: no
\* step of such a request takes the lock or changes the entries, their
\* refresh times or their order, and the request never reaches the lookup.
C21_BypassLeavesCache ==
    [][ \A r \in Reqs :
          (req'[r] # req[r]
             /\ (RejectedEarly(req'[r].path, req'[r].raw)
                   \/ PassedThrough(req'[r].path, req'[r].raw))) =>
              /\ cache' = cache
              /\ lock' = lock
              /\ req'[r].pc \in {"original", "done"}
              /\ req'[r].pc = "done" =>
                   req'[r].resp.route \in {"rejected", "original"} ]_vars
\* a pass-through response was sent while the cache held two entries, the
\* older of them expired and the newer last used before now: a lookup would
\* have removed or refreshed an entry
C21_Witness ==
    \E r \in Reqs :
        /\ req[r].pc = "done"
        /\ req[r].resp.route = "original" /\ req[r].resp.status = 200
        /\ Len(cache) = 2
        /\ cache[1].at < clock
        /\ ~Fresh(cache[2], clock)
====
